---- MODULE Spec2Model ----
(***************************************************************************)
(* LocalProvider (src/app/providers/sandbox/local.py): the registry of     *)
(* sandboxes, the path resolver, the process runner and the operations     *)
(* built on them, as a state machine over a small file system.             *)
(*                                                                         *)
(* A path is a sequence of name components; the file system is the set of  *)
(* directories, the map of regular files and the map of symbolic links.    *)
(* Every provider call is run by a thread; a call is split into steps at   *)
(* the registry accesses, file-system calls and process waits of its code, *)
(* so that calls of different threads interleave as the unlocked code lets *)
(* them.                                                                   *)
(*                                                                         *)
(* uuid.uuid4() and the random suffix of tempfile.mkdtemp() are modelled   *)
(* as sources of fresh values (they never repeat a value).                 *)
(*                                                                         *)
(* git is modelled as far as the operations use it (clone of an empty      *)
(* remote, index, commits, branches), and GitHubProvider.get_pr_checks     *)
(* (src/app/providers/scm/github.py) as one more call of a thread.         *)
(***************************************************************************)
EXTENDS Integers, Sequences, FiniteSets, TLC

VARIABLES
    sandboxes,  \* self._sandboxes: sandbox id -> root path
    dirs,       \* the directories on disk (absolute paths)
    files,      \* the regular files on disk: path -> content
    links,      \* the symbolic links on disk: path -> target (a Path)
    th,         \* per thread: the call in progress and its local variables, or
                \* the return value or exception of the call that has just ended
    uuids,      \* how many uuid4 / mkdtemp values have been drawn
    created,    \* id -> env mapping given to the create_sandbox call that made it
    returned,   \* the ids that create_sandbox has returned, in order
    deleted,    \* ids for which a delete_sandbox call has returned normally
    repos       \* the git repositories on disk: top-level directory -> what
                \* its .git directory holds (commits, index, branches)

vars == <<sandboxes, dirs, files, links, th, uuids, created, returned, deleted,
          repos>>

fsvars == <<dirs, files, links>>

(***************************************************************************)
(* Bounds and input sets                                                   *)
(***************************************************************************)
MaxCreate == 2

Threads == {"t1", "t2"}

Names == {"demo"}

\* An identifier no create_sandbox call can return.
GhostId == "ghost"

NoEnv == <<>>

\* os.environ of the provider process
OsEnviron == [HOME |-> "os", LANG |-> "os"]

CreateEnvs == {NoEnv, [K |-> "sandbox", LANG |-> "sandbox"]}

CallEnvs == {NoEnv, [K |-> "call", HOME |-> "call"]}

CreateLabels == {NoEnv, [team |-> "x"]}

BaseDir == <<"t">>

(***************************************************************************)
(* Paths                                                                   *)
(***************************************************************************)
\* pathlib.Path(s): absolute or relative, and its components
Path(isAbs, parts) == [abs |-> isAbs, parts |-> parts]

Rel(parts) == Path(FALSE, parts)

Abs(parts) == Path(TRUE, parts)

IsPrefix(p, q) == Len(p) <= Len(q) /\ SubSeq(q, 1, Len(p)) = p

Front(s) == SubSeq(s, 1, Len(s) - 1)

Exists(p) == p \in dirs \/ p \in DOMAIN files \/ p \in DOMAIN links

\* os.path.realpath, non-strict, as Path.resolve() calls it: walk the
\* components from the directory cur, dropping ".", popping on "..", and
\* substituting the target of every symbolic link met on the way.
RECURSIVE realpath(_, _)
realpath(cur, rest) ==
    IF rest = <<>> THEN cur
    ELSE LET name == Head(rest)
             more == Tail(rest)
             new  == Append(cur, name)
         IN  IF name = "." THEN realpath(cur, more)
             ELSE IF name = ".."
                  THEN realpath(IF cur = <<>> THEN cur ELSE Front(cur), more)
             ELSE IF new \in DOMAIN links
                  THEN IF links[new].abs
                       THEN realpath(<<>>, links[new].parts \o more)
                       ELSE realpath(cur, links[new].parts \o more)
             ELSE realpath(new, more)

\* Path.resolve() of an absolute path
resolve(p) == realpath(<<>>, p)

\* the characters by which a directory name may go on after a shorter name
NameTails == {"", "2"}

\* str(target).startswith(str(root)): a test on the text of the paths
relative_to_str_prefix(target, root) ==
    \/ root = <<>>
    \/ /\ Len(root) <= Len(target)
       /\ Front(root) = SubSeq(target, 1, Len(root) - 1)
       /\ \E tail \in NameTails : target[Len(root)] = root[Len(root)] \o tail

\* PurePath.relative_to(root) succeeds: root is target or an ancestor of it,
\* component by component
relative_to(target, root) == IsPrefix(root, target)

\* root / target for a relative target; an absolute target stands as it is
JoinRoot(root, p) == IF p.abs THEN p.parts ELSE root \o p.parts

(***************************************************************************)
(* Registry and path resolver                                              *)
(***************************************************************************)
\* _get_root: the registered root, or the unknown-sandbox ValueError
_get_root(id) ==
    IF id \in DOMAIN sandboxes
    THEN [ok |-> TRUE, root |-> sandboxes[id]]
    ELSE [ok |-> FALSE, err |-> "unknown_sandbox"]

\* _resolve_path with an absolute input taken as it is, unchecked
_resolve_path_abs_trusted(id, p) ==
    LET got == _get_root(id)
    IN  IF ~got.ok THEN got
        ELSE LET root   == resolve(got.root)
                 target == resolve(JoinRoot(root, p))
             IN  IF p.abs \/ relative_to(target, root)
                 THEN [ok |-> TRUE, root |-> got.root, target |-> target]
                 ELSE [ok |-> FALSE, err |-> "path_escape"]

\* _resolve_path: the resolved target inside the resolved root, or the
\* unknown-sandbox or path-escape ValueError
_resolve_path(id, p) ==
    LET got == _get_root(id)
    IN  IF ~got.ok THEN got
        ELSE LET root   == resolve(got.root)
                 target == resolve(JoinRoot(root, p))
             IN  IF relative_to(target, root)
                 THEN [ok |-> TRUE, root |-> got.root, target |-> target]
                 ELSE [ok |-> FALSE, err |-> "path_escape"]

(***************************************************************************)
(* Threads                                                                 *)
(***************************************************************************)
Idle == [pc |-> "idle"]

IsIdle(t) == th[t].pc = "idle"

\* the call of thread t ends with this outcome: a return value or an
\* exception
Return(t, outcome) == th' = [th EXCEPT ![t] = [pc |-> "done", out |-> outcome]]

\* the call of thread t goes on at the step next
Goto(t, next) == th' = [th EXCEPT ![t] = next]

\* the caller has the outcome of its call and is free to make the next one
ret(t) ==
    /\ th[t].pc = "done"
    /\ th' = [th EXCEPT ![t] = Idle]
    /\ UNCHANGED <<sandboxes, fsvars, uuids, created, returned, deleted, repos>>

Done(t) == th[t].pc = "done"

Raise(op, id, err) == [op |-> op, id |-> id, kind |-> err]

Ok(op, id) == [op |-> op, id |-> id, kind |-> "ok"]

\* every identifier a caller may pass: the registered ones, the ones that
\* were issued before, and one that never was
Ids == DOMAIN created \cup {GhostId}

(***************************************************************************)
(* File-system calls                                                       *)
(***************************************************************************)
\* the proper ancestors of p and p itself
Chain(p) == {SubSeq(p, 1, n) : n \in 0..Len(p)}

\* Path.mkdir(parents=True, exist_ok=True) can succeed: nothing on the chain
\* is a file or a link
CanMkdirs(p) == \A q \in Chain(p) : q \notin DOMAIN files /\ q \notin DOMAIN links

MkdirsDirs(p) == dirs \cup Chain(p)

\* shutil.rmtree(root): everything at or under root
Under(root) == {p \in dirs \cup DOMAIN files \cup DOMAIN links : IsPrefix(root, p)}

Restrict(f, S) == [x \in S |-> f[x]]

\* a regular file: its content and the permission bits the program set on it
\* (<<>> when it set none)
File(data, mode) == [data |-> data, mode |-> mode]

\* os.scandir(d): the entries of directory d
Children(d) == {p \in dirs \cup DOMAIN files \cup DOMAIN links :
                   Len(p) = Len(d) + 1 /\ IsPrefix(d, p)}

\* the .git directory of the repository at top-level directory r
GitDir(r) == Append(r, ".git")

(***************************************************************************)
(* create_sandbox                                                          *)
(***************************************************************************)
\* uuid.uuid4().hex: a value never drawn before
uuid4 == ToString(uuids + 1)

\* the identifier without its uuid suffix
NewSandboxId_name_only(name) == name

\* a directory named after the sandbox alone, made if missing
mkdtemp_fixed(name) == Append(BaseDir, "ralph-" \o name)

\* f"{name}-{uuid.uuid4().hex}"
NewSandboxId(name) == name \o "-" \o uuid4

\* tempfile.mkdtemp(prefix=f"ralph-{name}-", dir=base_dir): a directory of
\* base_dir that did not exist
mkdtemp(name) == Append(BaseDir, "ralph-" \o name \o "-" \o uuid4)

\* "\n".join(f"{key}={value}" ...): the lines of the metadata file
EnvText(env) == {<<k, env[k]>> : k \in DOMAIN env}

\* lines 91-97: draw the identifier, make the root directory. mkdtemp raises
\* when the directory cannot be made.
create_sandbox(t, name, env, labels) ==
    /\ IsIdle(t)
    /\ uuids < MaxCreate
    /\ uuids' = uuids + 1
    /\ \/ /\ dirs' = dirs \cup {mkdtemp(name)}
          /\ created' = created @@ (NewSandboxId(name) :> env)
          /\ Goto(t, [pc |-> "create_register", op |-> "create_sandbox",
                      id |-> NewSandboxId(name), root |-> mkdtemp(name),
                      env |-> env, labels |-> labels])
       \/ /\ Return(t, Raise("create_sandbox", NewSandboxId(name), "os_error")
                        @@ [root |-> mkdtemp(name)])
          /\ UNCHANGED <<dirs, created>>
    /\ UNCHANGED <<sandboxes, files, links, returned, deleted, repos>>

\* line 98: self._sandboxes[sandbox_id] = root
create_register(t) ==
    /\ th[t].pc = "create_register"
    /\ sandboxes' = sandboxes @@ (th[t].id :> th[t].root)
    /\ Goto(t, [th[t] EXCEPT !.pc = "create_meta"])
    /\ UNCHANGED <<fsvars, uuids, created, returned, deleted, repos>>

MetaDir(root) == Append(root, ".ralph")

MetaFiles(root, env, labels) ==
    (IF env # NoEnv
     THEN Append(MetaDir(root), "sandbox-env.txt") :> File(EnvText(env), <<>>)
     ELSE <<>>)
    @@ (IF labels # NoEnv
        THEN Append(MetaDir(root), "sandbox-labels.txt") :> File(EnvText(labels), <<>>)
        ELSE <<>>)

\* what a metadata write that raises has put under the root by then:
\* nothing, the .ralph directory, or .ralph with the first of two files
MetaLeft(root, env, labels) ==
    {[dirs |-> {}, files |-> <<>>]}
    \cup {[dirs |-> {MetaDir(root)}, files |-> <<>>] : x \in {1}}
    \cup {[dirs |-> {MetaDir(root)}, files |-> MetaFiles(root, env, NoEnv)] :
              x \in {y \in {1} : env # NoEnv /\ labels # NoEnv}}

\* lines 99-113: write the metadata files when env or labels are given, then
\* return the identifier. A failing mkdir or write_text raises, after the
\* identifier was registered at line 98.
create_meta(t) ==
    /\ th[t].pc = "create_meta"
    /\ LET c == th[t]
           meta == MetaFiles(c.root, c.env, c.labels)
       IN  IF DOMAIN meta = {}
           THEN /\ Return(t, Ok("create_sandbox", c.id))
                /\ returned' = Append(returned, c.id)
                /\ UNCHANGED fsvars
           ELSE \/ /\ CanMkdirs(MetaDir(c.root))
                   /\ dirs' = MkdirsDirs(MetaDir(c.root))
                   /\ files' = meta @@ files
                   /\ Return(t, Ok("create_sandbox", c.id))
                   /\ returned' = Append(returned, c.id)
                   /\ UNCHANGED links
                \/ /\ \E left \in MetaLeft(c.root, c.env, c.labels) :
                         /\ dirs' = dirs \cup left.dirs
                         /\ files' = left.files @@ files
                   /\ Return(t, Raise("create_sandbox", c.id, "os_error")
                                 @@ [root |-> c.root])
                   /\ UNCHANGED <<links, returned>>
    /\ UNCHANGED <<sandboxes, uuids, created, deleted, repos>>

(***************************************************************************)
(* delete_sandbox, start_sandbox, stop_sandbox, get_preview_link           *)
(***************************************************************************)
\* line 116: root = self._get_root(sandbox_id)
delete_sandbox(t, id) ==
    /\ IsIdle(t)
    /\ LET got == _get_root(id)
       IN  IF got.ok
           THEN Goto(t, [pc |-> "delete_rmtree", op |-> "delete_sandbox",
                         id |-> id, root |-> got.root])
           ELSE Return(t, Raise("delete_sandbox", id, got.err))
    /\ UNCHANGED <<sandboxes, fsvars, uuids, created, returned, deleted, repos>>

\* what shutil.rmtree(root, ignore_errors=True) can leave behind: nothing,
\* the emptied root directory, or the whole tree
RmtreeLeaves(root) == {{}, {root} \cap dirs, Under(root)}

\* line 117: shutil.rmtree(root, ignore_errors=True); removed keeps whether
\* the whole tree went
delete_rmtree(t) ==
    /\ th[t].pc = "delete_rmtree"
    /\ \E left \in RmtreeLeaves(th[t].root) :
          LET gone == Under(th[t].root) \ left
          IN  /\ dirs' = dirs \ gone
              /\ files' = Restrict(files, DOMAIN files \ gone)
              /\ links' = Restrict(links, DOMAIN links \ gone)
              /\ repos' = Restrict(repos, {r \in DOMAIN repos : GitDir(r) \notin gone})
              /\ Goto(t, [th[t] EXCEPT !.pc = "delete_pop"]
                          @@ [removed |-> left = {}])
    /\ UNCHANGED <<sandboxes, uuids, created, returned, deleted>>

\* line 118 run only when the tree is gone
delete_pop_if_removed(t) ==
    /\ th[t].pc = "delete_pop"
    /\ sandboxes' = IF th[t].root \in dirs THEN sandboxes
                    ELSE Restrict(sandboxes, DOMAIN sandboxes \ {th[t].id})
    /\ deleted' = deleted \cup {th[t].id}
    /\ Return(t, [op |-> "delete_sandbox", id |-> th[t].id, kind |-> "ok",
                   root |-> th[t].root, removed |-> th[t].removed])
    /\ UNCHANGED <<fsvars, uuids, created, returned, repos>>

\* line 118: self._sandboxes.pop(sandbox_id, None)
delete_pop(t) ==
    /\ th[t].pc = "delete_pop"
    /\ sandboxes' = Restrict(sandboxes, DOMAIN sandboxes \ {th[t].id})
    /\ deleted' = deleted \cup {th[t].id}
    /\ Return(t, [op |-> "delete_sandbox", id |-> th[t].id, kind |-> "ok",
                   root |-> th[t].root, removed |-> th[t].removed])
    /\ UNCHANGED <<fsvars, uuids, created, returned, repos>>

\* lines 120-124: start_sandbox and stop_sandbox only look the identifier up
start_stop(t, op, id) ==
    /\ IsIdle(t)
    /\ LET got == _get_root(id)
       IN  Return(t, IF got.ok THEN Ok(op, id) ELSE Raise(op, id, got.err))
    /\ UNCHANGED <<sandboxes, fsvars, uuids, created, returned, deleted, repos>>

start_sandbox(t, id) == start_stop(t, "start_sandbox", id)

stop_sandbox(t, id) == start_stop(t, "stop_sandbox", id)

\* lines 288-289: return None
get_preview_link(t, id, port) ==
    /\ IsIdle(t)
    /\ Return(t, [op |-> "get_preview_link", id |-> id, kind |-> "ok", val |-> "None"])
    /\ UNCHANGED <<sandboxes, fsvars, uuids, created, returned, deleted, repos>>

(***************************************************************************)
(* Python values that the process runner handles                           *)
(***************************************************************************)
None == [ty |-> "NoneType", val |-> ""]

Str(s) == [ty |-> "str", val |-> s]

Bytes(s) == [ty |-> "bytes", val |-> s]

\* x or d
PyOr(x, d) == IF x.val = "" THEN d ELSE x

\* a + b raises TypeError unless both are str or both are bytes
PyAddOk(a, b) == a.ty = b.ty

PyAdd(a, b) == [ty |-> a.ty, val |-> a.val \o b.val]

ExecResult(code, stdout, stderr) ==
    [exit_code |-> code, stdout |-> stdout, stderr |-> stderr]

NoTimeout == <<>>

(***************************************************************************)
(* Processes. A command is what the started program does: "sh" writes out  *)
(* to its standard output and err to its standard error and exits with     *)
(* code; "ln" makes the symbolic link name -> target in its working        *)
(* directory; "git" is a git invocation, with -C repo or in its working    *)
(* directory.                                                              *)
(***************************************************************************)
Sh(o, e, code) == [prog |-> "sh", out |-> o, err |-> e, code |-> code]

Ln(target, name) == [prog |-> "ln", target |-> target, name |-> name]

Git(sub, repo, args) == [prog |-> "git", sub |-> sub, repo |-> repo, args |-> args]

\* git <sub> <args>, run by exec in the working directory of the call
GitHere(sub, args) == [prog |-> "git", sub |-> sub, args |-> args]

\* what the program writes in all
ProgOut(c) == IF c.prog = "sh" THEN c.out ELSE ""

ProgErr(c) == IF c.prog = "sh" THEN c.err ELSE ""

\* merged_env of lines 51-53: os.environ.copy(), updated with env if given
MergedEnv(env) ==
    [k \in DOMAIN OsEnviron \cup DOMAIN env |->
        IF k \in DOMAIN env THEN env[k] ELSE OsEnviron[k]]

\* what the call of thread t has done so far that outlives it: directories
\* made ("directory"), a child run to its end ("process")
Effects(t) == IF "effects" \in DOMAIN th[t] THEN th[t].effects ELSE {}

\* _run, lines 49-64, up to the start of the child: look the root up, resolve
\* cwd when one is given, merge the environment, start the process in
\* run_cwd (Popen raises when run_cwd is no directory).
_run(t, op, id, command, cwd, env, timeout_s) ==
    LET got == _get_root(id)
        rp  == IF cwd = None \/ cwd = Rel(<<>>) THEN got ELSE _resolve_path(id, cwd)
        run_cwd == IF "target" \in DOMAIN rp THEN rp.target ELSE rp.root
        fail(err) == [op |-> op, id |-> id, kind |-> err, path |-> cwd,
                      effects |-> Effects(t)]
    IN  IF ~got.ok THEN Return(t, fail(got.err))
        ELSE IF ~rp.ok THEN Return(t, fail(rp.err))
        ELSE IF run_cwd \notin dirs THEN Return(t, fail("os_error"))
        ELSE Goto(t, [pc |-> "run_wait", op |-> op, id |-> id, root |-> got.root,
                      path |-> cwd, command |-> command, run_cwd |-> run_cwd,
                      env |-> env, merged_env |-> MergedEnv(env),
                      timeout_s |-> timeout_s, effects |-> Effects(t)])

\* lines 126-140: exec is _run
exec(t, id, command, cwd, env, timeout_s) ==
    /\ IsIdle(t)
    /\ _run(t, "exec", id, command, cwd, env, timeout_s)
    /\ UNCHANGED <<sandboxes, fsvars, uuids, created, returned, deleted, repos>>

\* The ways the child of thread t can run to its end: the CompletedProcess
\* that subprocess.run returns (text=True: str output) and the directories,
\* links and repositories it leaves on disk.
End(r, d, l, g) == [r |-> r, dirs |-> d, links |-> l, repos |-> g]

(***************************************************************************)
(* git, as far as the operations use it. A repository holds the number n   *)
(* of commits on its branch (0: HEAD is unborn), the tree of HEAD, the     *)
(* index, the branch checked out and the branches that exist; a tree maps  *)
(* the path of a file to its content. The remote that git clone reads is   *)
(* an empty bare repository; a transfer may fail.                          *)
(***************************************************************************)
MaxCommits == 2

\* the object name of the n-th commit: 40 hexadecimal digits
Sha(n) == "000000000000000000000000000000000000000" \o ToString(n)

\* a URL at which nothing is served: every transfer from it fails
DeadUrl == <<"https://", "nowhere.invalid/repo.git">>

ClonedRepo ==
    [n |-> 0, head |-> <<>>, index |-> <<>>, branch |-> "master", branches |-> {}]

\* the directory git is pointed at: the target of clone, the -C argument,
\* or the working directory of the process
GitCwd(t) ==
    IF "repo" \in DOMAIN th[t].command THEN th[t].command.repo ELSE th[t].run_cwd

\* the repositories found from directory d upwards, and the nearest one
Toplevels(d) == {r \in DOMAIN repos : IsPrefix(r, d)}

Toplevel(d) == CHOOSE r \in Toplevels(d) : \A q \in Toplevels(d) : Len(q) <= Len(r)

\* the working tree of the repository at r: the regular files under r and
\* outside .git
WorkTree(r) ==
    [p \in {q \in DOMAIN files : IsPrefix(r, q) /\ ~IsPrefix(GitDir(r), q)} |->
        files[p].data]

RECURSIVE JoinPath(_)
JoinPath(p) ==
    IF Len(p) = 0 THEN "" ELSE
    IF Len(p) = 1 THEN p[1] ELSE p[1] \o "/" \o JoinPath(Tail(p))

\* the lines line[p] for the paths p of S, one after the other
RECURSIVE TextOf(_, _)
TextOf(line, S) ==
    IF S = {} THEN ""
    ELSE LET p == CHOOSE q \in S : TRUE
         IN  line[p] \o TextOf(line, S \ {p})

\* the two status letters of path p: index against HEAD, working tree
\* against index; "??" for an untracked file
StatusXY(g, wt, p) ==
    IF p \notin DOMAIN g.index
    THEN IF p \in DOMAIN wt THEN "??" ELSE "D "
    ELSE (IF p \notin DOMAIN g.head THEN "A"
          ELSE IF g.head[p] # g.index[p] THEN "M" ELSE " ")
         \o (IF p \notin DOMAIN wt THEN "D"
             ELSE IF wt[p] # g.index[p] THEN "M" ELSE " ")

\* the output of git status --porcelain: one line per path that is not clean
StatusText(r) ==
    LET g    == repos[r]
        wt   == WorkTree(r)
        all  == DOMAIN g.head \cup DOMAIN g.index \cup DOMAIN wt
        code == [p \in all |-> StatusXY(g, wt, p)]
        shown == {p \in all : code[p] # "  "}
    IN  TextOf([p \in shown |->
                   code[p] \o " " \o JoinPath(SubSeq(p, Len(r) + 1, Len(p))) \o "\n"],
               shown)

\* the output of git diff: one header per tracked path whose file differs
\* from the index
DiffText(r) ==
    LET g  == repos[r]
        wt == WorkTree(r)
        shown == {p \in DOMAIN g.index : p \notin DOMAIN wt \/ wt[p] # g.index[p]}
    IN  TextOf([p \in shown |->
                   "diff --git " \o JoinPath(SubSeq(p, Len(r) + 1, Len(p))) \o "\n"],
               shown)

\* the ways a git child can end
GitEnds(t) ==
    LET c == th[t].command
        d == GitCwd(t)
        fails(code, o, e) == End(ExecResult(code, Str(o), Str(e)), dirs, links, repos)
        ends(o, e, g) == End(ExecResult(0, Str(o), Str(e)), dirs, links, g)
    IN  IF c.sub = "clone"
        THEN {fails(128, "", "fatal: unable to access")}
             \cup (IF /\ c.url # DeadUrl
                      /\ Front(d) \in dirs
                      /\ \/ ~Exists(d)
                         \/ d \in dirs /\ Children(d) = {}
                   THEN {End(ExecResult(0, Str(""), Str("Cloning into")),
                             dirs \cup {d, GitDir(d)}, links,
                             (d :> ClonedRepo) @@ repos)}
                   ELSE {})
        ELSE IF d \notin dirs
        THEN {fails(128, "", "fatal: cannot change to")}
        ELSE IF Toplevels(d) = {}
        THEN {fails(IF c.sub = "diff" THEN 129 ELSE 128, "", "fatal: not a git repository")}
        ELSE LET r == Toplevel(d)
                 g == repos[r]
                 with(h) == (r :> h) @@ repos
             IN  CASE c.sub = "status" -> {ends(StatusText(r), "", repos)}
                   [] c.sub = "diff" -> {ends(DiffText(r), "", repos)}
                   [] c.sub = "add" ->
                        {ends("", "", with([g EXCEPT !.index = WorkTree(r)]))}
                   [] c.sub = "checkout" ->
                        IF c.args[2] \in g.branches
                        THEN {fails(128, "", "fatal: a branch of that name already exists")}
                        ELSE {ends("", "Switched to a new branch",
                                   with([g EXCEPT !.branch = c.args[2],
                                                  !.branches = IF g.n = 0 THEN @
                                                               ELSE @ \cup {c.args[2]}]))}
                   [] c.sub = "commit" ->
                        IF g.index = g.head
                        THEN {fails(1, "nothing to commit", "")}
                        ELSE {ends("[" \o g.branch \o " " \o Sha(g.n + 1) \o "]", "",
                                   with([g EXCEPT !.n = @ + 1, !.head = g.index,
                                                  !.branches = @ \cup {g.branch}]))}
                   [] c.sub = "rev-parse" ->
                        IF g.n = 0
                        THEN {fails(128, "HEAD\n", "fatal: ambiguous argument 'HEAD'")}
                        ELSE {ends(Sha(g.n) \o "\n", "", repos)}
                   [] c.sub = "push" ->
                        IF g.n = 0
                        THEN {fails(1, "", "error: src refspec does not match any")}
                        ELSE {ends("", "To remote", repos),
                              fails(128, "", "fatal: unable to access")}

Completions(t) ==
    LET c == th[t].command
        p == Append(th[t].run_cwd, IF c.prog = "ln" THEN c.name ELSE "")
    IN  CASE c.prog = "sh" ->
                {End(ExecResult(c.code, Str(c.out), Str(c.err)), dirs, links, repos)}
          [] c.prog = "ln" ->
                IF th[t].run_cwd \in dirs /\ ~Exists(p)
                THEN {End(ExecResult(0, Str(""), Str("")), dirs,
                          links @@ (p :> c.target), repos)}
                ELSE {End(ExecResult(1, Str(""), Str("ln: failed")), dirs, links, repos)}
          [] c.prog = "git" -> GitEnds(t)

\* what each stream of TimeoutExpired can hold on POSIX: None when nothing
\* was read from the child, else the bytes read so far
Captured(text) == {None} \cup {Bytes(s) : s \in {text} \ {""}}

\* lines 65-74: the handler of subprocess.TimeoutExpired
TimeoutResult(exc_stdout, exc_stderr) ==
    ExecResult(124, PyOr(exc_stdout, Str("")),
               PyAdd(PyOr(exc_stderr, Str("")), Str("\nCommand timed out.")))

TimeoutHandlerOk(exc_stderr) ==
    PyAddOk(PyOr(exc_stderr, Str("")), Str("\nCommand timed out."))

\* str.strip() of what git rev-parse prints: the object name without its
\* newline
strip(text) ==
    LET N == {n \in 1..(MaxCommits + 1) : text = Sha(n) \o "\n"}
    IN  IF N = {} THEN text ELSE Sha(CHOOSE n \in N : TRUE)

\* what the caller of _run does with its ExecResult r: exec returns it
\* (lines 134-140); a git operation raises RuntimeError with a message that
\* ends with the standard error text on a non-zero exit code, git_commit
\* goes on to git rev-parse HEAD (lines 258-263) and returns its trimmed
\* output, git_status and git_diff return the output. ran and command keep
\* the last invocation of the call next to its outcome.
Continue(t, r, timed_out) ==
    LET c == th[t]
        git(kind) == [op |-> c.op, id |-> c.id, kind |-> kind, ran |-> r,
                      command |-> c.command]
    IN  IF c.op = "exec"
        THEN Return(t, [op |-> c.op, id |-> c.id, kind |-> "ok", val |-> r,
                        timed_out |-> timed_out])
        ELSE IF r.exit_code # 0
        THEN Return(t, git("git_error") @@
                       [msg |-> "git " \o c.command.sub \o " failed: " \o r.stderr.val])
        ELSE IF c.command.sub = "commit"
        THEN Goto(t, [pc |-> "git_run", op |-> c.op, id |-> c.id,
                      command |-> Git("rev-parse", c.command.repo, <<"HEAD">>),
                      effects |-> c.effects \cup {"process"}])
        ELSE Return(t, git("ok") @@
                       [val |-> IF c.op \in {"git_status", "git_diff"} THEN r.stdout
                                ELSE IF c.op = "git_commit"
                                THEN Str(strip(r.stdout.val))
                                ELSE None])

\* lines 56-81: the child ends and _run returns its ExecResult, or the
\* timeout expires first and the handler of TimeoutExpired builds the result
run_end(t) ==
    /\ th[t].pc = "run_wait"
    /\ \/ \E e \in Completions(t) :
             /\ dirs' = e.dirs
             /\ links' = e.links
             /\ repos' = e.repos
             /\ Continue(t, e.r, FALSE)
       \/ /\ th[t].timeout_s # NoTimeout
          /\ \E so \in Captured(ProgOut(th[t].command)),
                se \in Captured(ProgErr(th[t].command)) :
                IF TimeoutHandlerOk(se)
                THEN Continue(t, TimeoutResult(so, se), TRUE)
                ELSE Return(t, [op |-> th[t].op, id |-> th[t].id,
                                kind |-> "type_error", timed_out |-> TRUE])
          /\ UNCHANGED <<dirs, links, repos>>
    /\ UNCHANGED <<sandboxes, files, uuids, created, returned, deleted>>

(***************************************************************************)
(* File and directory operations                                           *)
(***************************************************************************)
\* the first line of every operation that takes a path: _resolve_path
Resolved(t, op, id, path, pc, more) ==
    /\ IsIdle(t)
    /\ LET rp == _resolve_path(id, path)
       IN  IF rp.ok
           THEN Goto(t, [pc |-> pc, op |-> op, id |-> id, path |-> path,
                         root |-> rp.root, target |-> rp.target] @@ more)
           ELSE Return(t, [op |-> op, id |-> id, kind |-> rp.err, path |-> path])
    /\ UNCHANGED <<sandboxes, fsvars, uuids, created, returned, deleted, repos>>

\* line 143
read_file(t, id, path) == Resolved(t, "read_file", id, path, "read_bytes", <<>>)

\* line 144: file_path.read_bytes()
read_bytes(t) ==
    /\ th[t].pc = "read_bytes"
    /\ Return(t, [target |-> th[t].target] @@
                 (IF th[t].target \in DOMAIN files
                  THEN [op |-> "read_file", id |-> th[t].id, kind |-> "ok",
                        val |-> files[th[t].target].data]
                  ELSE IF th[t].target \in dirs
                  THEN Raise("read_file", th[t].id, "os_error")
                  ELSE Raise("read_file", th[t].id, "not_found")))
    /\ UNCHANGED <<sandboxes, fsvars, uuids, created, returned, deleted, repos>>

MaxFileLen == 4

\* line 154 (no file is appended to beyond MaxFileLen characters)
write_file(t, id, path, data, mode, append) ==
    /\ append => \A p \in DOMAIN files : Len(files[p].data) + Len(data) <= MaxFileLen
    /\ Resolved(t, "write_file", id, path, "write_open",
                [data |-> data, mode |-> mode, append |-> append])

\* lines 155-160 with the file always opened in "ab"
write_open_always_ab(t) ==
    /\ th[t].pc = "write_open"
    /\ LET c == th[t]
           old == IF c.target \in DOMAIN files THEN files[c.target].data ELSE ""
           oldmode == IF c.target \in DOMAIN files
                      THEN files[c.target].mode ELSE <<>>
           wrote == [target |-> c.target, data |-> c.data, append |-> c.append,
                     prev |-> old]
       IN  IF ~CanMkdirs(Front(c.target))
           THEN /\ Return(t, Raise(c.op, c.id, "os_error") @@ wrote)
                /\ UNCHANGED <<dirs, files>>
           ELSE IF c.target \in dirs
           THEN /\ dirs' = MkdirsDirs(Front(c.target))
                /\ Return(t, Raise(c.op, c.id, "os_error") @@ wrote)
                /\ UNCHANGED files
           ELSE /\ dirs' = MkdirsDirs(Front(c.target))
                /\ files' = (c.target :> File(old \o c.data,
                                 IF c.mode # <<>> THEN c.mode ELSE oldmode)) @@ files
                /\ Return(t, Ok(c.op, c.id) @@ wrote)
    /\ UNCHANGED <<sandboxes, links, uuids, created, returned, deleted, repos>>

\* lines 155-160: make the parent directories, open in "ab" or "wb", write,
\* chmod when a mode is given. The outcome keeps what the call was given
\* and the content the file had before (prev).
write_open(t) ==
    /\ th[t].pc = "write_open"
    /\ LET c == th[t]
           old == IF c.append /\ c.target \in DOMAIN files
                  THEN files[c.target].data ELSE ""
           oldmode == IF c.target \in DOMAIN files
                      THEN files[c.target].mode ELSE <<>>
           wrote == [target |-> c.target, data |-> c.data, append |-> c.append,
                     prev |-> IF c.target \in DOMAIN files
                              THEN files[c.target].data ELSE ""]
       IN  IF ~CanMkdirs(Front(c.target))
           THEN /\ Return(t, Raise(c.op, c.id, "os_error") @@ wrote)
                /\ UNCHANGED <<dirs, files>>
           ELSE IF c.target \in dirs
           THEN /\ dirs' = MkdirsDirs(Front(c.target))
                /\ Return(t, Raise(c.op, c.id, "os_error") @@ wrote)
                /\ UNCHANGED files
           ELSE /\ dirs' = MkdirsDirs(Front(c.target))
                /\ files' = (c.target :> File(old \o c.data,
                                 IF c.mode # <<>> THEN c.mode ELSE oldmode)) @@ files
                /\ Return(t, Ok(c.op, c.id) @@ wrote)
    /\ UNCHANGED <<sandboxes, links, uuids, created, returned, deleted, repos>>

\* line 163
list_files(t, id, path) == Resolved(t, "list_files", id, path, "scandir", <<>>)

\* the FileEntry of the child p of a scanned directory: entry.stat() and
\* entry.is_dir() follow symbolic links (mod_time is left out: no clock)
FileEntry(p) ==
    [name |-> p[Len(p)], is_dir |-> resolve(p) \in dirs,
     size |-> IF resolve(p) \in DOMAIN files THEN Len(files[resolve(p)].data) ELSE 0]

\* entry.stat() raises FileNotFoundError on a link whose target is missing
Dangling(p) == p \in DOMAIN links /\ resolve(p) \notin dirs \cup DOMAIN files

\* lines 164-175: os.scandir raises when dir_path is no directory
scandir(t) ==
    /\ th[t].pc = "scandir"
    /\ Return(t, [target |-> th[t].target] @@
                 (IF th[t].target \in dirs
                  THEN IF \E p \in Children(th[t].target) : Dangling(p)
                       THEN Raise("list_files", th[t].id, "not_found")
                       ELSE [op |-> "list_files", id |-> th[t].id, kind |-> "ok",
                             val |-> {FileEntry(p) : p \in Children(th[t].target)}]
                  ELSE IF Exists(th[t].target)
                  THEN Raise("list_files", th[t].id, "os_error")
                  ELSE Raise("list_files", th[t].id, "not_found")))
    /\ UNCHANGED <<sandboxes, fsvars, uuids, created, returned, deleted, repos>>

\* line 178
mkdirs(t, id, path) == Resolved(t, "mkdirs", id, path, "mkdir", <<>>)

\* line 179 with exist_ok=False: FileExistsError when the directory exists
mkdir_exist_not_ok(t) ==
    /\ th[t].pc = "mkdir"
    /\ LET made == [target |-> th[t].target, existed |-> th[t].target \in dirs]
       IN  IF CanMkdirs(th[t].target) /\ th[t].target \notin dirs
           THEN /\ dirs' = MkdirsDirs(th[t].target)
                /\ Return(t, Ok("mkdirs", th[t].id) @@ made)
           ELSE /\ Return(t, Raise("mkdirs", th[t].id, "os_error") @@ made)
                /\ UNCHANGED dirs
    /\ UNCHANGED <<sandboxes, files, links, uuids, created, returned, deleted, repos>>

\* line 179: dir_path.mkdir(parents=True, exist_ok=True). The outcome keeps
\* the resolved directory and whether it existed before the call.
mkdir(t) ==
    /\ th[t].pc = "mkdir"
    /\ LET made == [target |-> th[t].target, existed |-> th[t].target \in dirs]
       IN  IF CanMkdirs(th[t].target)
           THEN /\ dirs' = MkdirsDirs(th[t].target)
                /\ Return(t, Ok("mkdirs", th[t].id) @@ made)
           ELSE /\ Return(t, Raise("mkdirs", th[t].id, "os_error") @@ made)
                /\ UNCHANGED dirs
    /\ UNCHANGED <<sandboxes, files, links, uuids, created, returned, deleted, repos>>

(***************************************************************************)
(* Git operations                                                          *)
(***************************************************************************)
NoAuth == <<>>

\* _inject_auth without the test of the scheme
_inject_auth_any_scheme(url, auth) ==
    IF auth = NoAuth THEN url
    ELSE IF "token" \notin DOMAIN auth \/ auth.token = "" THEN url
    ELSE IF url # <<>>
         THEN <<Head(url), auth.token, "@">> \o Tail(url)
    ELSE url

\* _inject_auth, lines 291-300. A URL is the sequence of its parts, the
\* scheme prefix first: <<"https://", "github.com/org/repo.git">>, and the
\* user information, when the URL has any, as parts of its own before "@".
_inject_auth(url, auth) ==
    IF auth = NoAuth THEN url
    ELSE IF "token" \notin DOMAIN auth \/ auth.token = "" THEN url
    ELSE IF url # <<>> /\ Head(url) = "https://"
         THEN <<"https://", auth.token, "@">> \o Tail(url)
    ELSE url

\* line 189
git_clone(t, id, url, path, branch, auth) ==
    Resolved(t, "git_clone", id, path, "clone_mkdir",
             [url |-> url, branch |-> branch, auth |-> auth])

\* lines 190-195: make the parent of the target, build the command
clone_mkdir(t) ==
    /\ th[t].pc = "clone_mkdir"
    /\ LET c == th[t]
           clone_url == _inject_auth(c.url, c.auth)
       IN  IF CanMkdirs(Front(c.target))
           THEN /\ dirs' = MkdirsDirs(Front(c.target))
                /\ Goto(t, [pc |-> "git_run", op |-> c.op, id |-> c.id,
                            command |-> Git("clone", c.target, <<c.branch, clone_url>>)
                                        @@ [url |-> c.url, auth |-> c.auth],
                            effects |-> IF Front(c.target) \in dirs THEN {}
                                        ELSE {"directory"}])
           ELSE /\ Return(t, Raise(c.op, c.id, "os_error"))
                /\ UNCHANGED dirs
    /\ UNCHANGED <<sandboxes, files, links, uuids, created, returned, deleted, repos>>

\* git -C <resolved path> <sub> <args>: the path is resolved while the
\* argument list is built, before _run is entered. more holds the arguments
\* of the call that the command line was built from.
GitOn(t, op, id, path, sub, args, more) ==
    /\ IsIdle(t)
    /\ LET rp == _resolve_path(id, path)
       IN  IF rp.ok
           THEN Goto(t, [pc |-> "git_run", op |-> op, id |-> id, path |-> path,
                         root |-> rp.root, target |-> rp.target,
                         command |-> Git(sub, rp.target, args) @@ more])
           ELSE Return(t, [op |-> op, id |-> id, kind |-> rp.err, path |-> path])
    /\ UNCHANGED <<sandboxes, fsvars, uuids, created, returned, deleted, repos>>

\* lines 200-210
git_status(t, id, path) ==
    GitOn(t, "git_status", id, path, "status", <<"--porcelain">>, <<>>)

\* lines 215-219
git_diff(t, id, path) == GitOn(t, "git_diff", id, path, "diff", <<>>, <<>>)

\* lines 224-237
git_checkout_new_branch(t, id, path, branch_name) ==
    GitOn(t, "git_checkout_new_branch", id, path, "checkout", <<"-b", branch_name>>,
          <<>>)

\* lines 241-257
git_commit(t, id, path, message) ==
    /\ \A r \in DOMAIN repos : repos[r].n < MaxCommits
    /\ GitOn(t, "git_commit", id, path, "commit", <<"-m", message>>, <<>>)

\* lines 273-284
git_push(t, id, path, remote, branch, auth) ==
    GitOn(t, "git_push", id, path, "push", <<_inject_auth(remote, auth), branch>>,
          [url |-> remote, auth |-> auth])

\* the _run call of a git operation (lines 196, 201, 216, 227, 243, 260, 274)
git_run(t) ==
    /\ th[t].pc = "git_run"
    /\ _run(t, th[t].op, th[t].id, th[t].command, None, NoEnv, NoTimeout)
    /\ UNCHANGED <<sandboxes, fsvars, uuids, created, returned, deleted, repos>>

(***************************************************************************)
(* GitHubProvider.get_pr_checks (src/app/providers/scm/github.py). A       *)
(* response of the API is the parsed JSON value, or the HTTP error that    *)
(* _request turns into RuntimeError.                                       *)
(***************************************************************************)
MaxRuns == 3

HttpError == [ty |-> "HTTPError"]

\* a JSON value that is no object
NotDict == [ty |-> "list"]

\* the pull request: an object with head.sha, or without it
Pr(sha) == [ty |-> "dict", sha |-> sha]

\* a check run: an object with the conclusion given, or without the key
Run(conclusion) == [ty |-> "dict", conclusion |-> conclusion]

RunNoConclusion == [ty |-> "dict"]

CheckData(runs) == [ty |-> "dict", check_runs |-> runs]

\* run.get("conclusion")
Conclusion(run) == IF "conclusion" \in DOMAIN run THEN run.conclusion ELSE None

\* [run.get("conclusion") for run in runs if isinstance(run, dict)]
RECURSIVE Conclusions(_)
Conclusions(runs) ==
    IF runs = <<>> THEN <<>>
    ELSE IF Head(runs).ty = "dict"
         THEN <<Conclusion(Head(runs))>> \o Conclusions(Tail(runs))
         ELSE Conclusions(Tail(runs))

\* any(conclusion in values for conclusion in conclusions)
AnyIn(conclusions, values) ==
    \E i \in DOMAIN conclusions : conclusions[i] \in values

\* lines 127-134 with the pending test taken before the failure test
Aggregate_pending_first(conclusions) ==
    IF AnyIn(conclusions, {None, Str("queued"), Str("in_progress")})
    THEN "pending"
    ELSE IF AnyIn(conclusions, {Str("failure"), Str("cancelled"), Str("timed_out")})
    THEN "failure"
    ELSE IF conclusions # <<>> THEN "success"
    ELSE "unknown"

\* lines 127-134
Aggregate(conclusions) ==
    IF AnyIn(conclusions, {Str("failure"), Str("cancelled"), Str("timed_out")})
    THEN "failure"
    ELSE IF AnyIn(conclusions, {None, Str("queued"), Str("in_progress")})
    THEN "pending"
    ELSE IF conclusions # <<>> THEN "success"
    ELSE "unknown"

\* lines 115-134. self holds the token and the repository the provider was
\* made with; pr and check_data are the responses of the two GET requests.
get_pr_checks(t, self, pr, check_data) ==
    /\ IsIdle(t)
    /\ LET got(kind, val) == [op |-> "get_pr_checks", kind |-> kind, val |-> val,
                              pr |-> pr, check_data |-> check_data]
           runs == IF check_data.ty = "dict" /\ "check_runs" \in DOMAIN check_data
                   THEN check_data.check_runs ELSE <<>>
       IN  Return(t,
              IF self.repo = "" THEN got("value_error", "")
              ELSE IF self.token = "" THEN got("value_error", "")
              ELSE IF pr = HttpError THEN got("api_error", "")
              ELSE IF pr.ty # "dict" THEN got("runtime_error", "")
              ELSE IF pr.sha = None THEN got("ok", "unknown")
              ELSE IF check_data = HttpError THEN got("api_error", "")
              ELSE got("ok", Aggregate(Conclusions(runs))))
    /\ UNCHANGED <<sandboxes, fsvars, uuids, created, returned, deleted, repos>>

(***************************************************************************)
(* Specifications                                                          *)
(***************************************************************************)
Init ==
    /\ sandboxes = <<>>
    /\ dirs = {<<>>, BaseDir}
    /\ files = <<>>
    /\ links = <<>>
    /\ th = [t \in Threads |-> Idle]
    /\ uuids = 0
    /\ created = <<>>
    /\ returned = <<>>
    /\ deleted = {}
    /\ repos = <<>>

\* an absolute path in the directory next to the root of sandbox id whose
\* name is the name of the root with a character added
SiblingPath(id) ==
    LET root == sandboxes[id]
    IN  Abs(Append(Front(root), root[Len(root)] \o "2") \o <<"x">>)

\* the paths a caller passes: "", nested, with "..", through a contained and
\* an escaping link, absolute outside the root, absolute inside it, and
\* absolute in a sibling directory named like the root
PathInputs(id) ==
    {Rel(<<>>), Rel(<<"a", "b.txt">>), Rel(<<"..">>),
     Rel(<<"a", "..", "..", "x">>), Rel(<<"lnk", "b.txt">>), Rel(<<"esc", "x">>),
     Abs(<<"etc">>)}
    \cup {Abs(Append(sandboxes[i], "a")) : i \in {id} \cap DOMAIN sandboxes}
    \cup {SiblingPath(i) : i \in {id} \cap DOMAIN sandboxes}

OnePath(id) == {Rel(<<"a">>)}

LnCommands == {Ln(Rel(<<"..">>), "esc"), Ln(Rel(<<"a">>), "lnk")}

ShCommands == {Sh("", "", 0), Sh("out", "err", 0), Sh("out", "", 1), Sh("", "", 124)}

Timeouts == {NoTimeout, <<5>>}

HttpsUrl == <<"https://", "github.com/org/repo.git">>

Urls == {HttpsUrl, <<"git@github.com:org/repo.git">>}

Auths == {NoAuth, [token |-> "abc"]}

Create(t, envs, labelsets) ==
    \E name \in Names, env \in envs, labels \in labelsets :
        create_sandbox(t, name, env, labels)

Delete(t, ids) == \E id \in ids : delete_sandbox(t, id)

StartStop(t, ids) ==
    \E id \in ids :
        \/ start_sandbox(t, id)
        \/ stop_sandbox(t, id)
        \/ get_preview_link(t, id, 8080)

Exec(t, ids, commands, cwds, envs, timeouts) ==
    \E id \in ids, command \in commands, env \in envs, timeout_s \in timeouts :
        \E cwd \in cwds[id] :
            exec(t, id, command, cwd, env, timeout_s)

\* what write_file is given besides the path
Write(data, mode, append) == [data |-> data, mode |-> mode, append |-> append]

OneWrite == {Write("hi", <<>>, FALSE)}

Writes == {Write(data, mode, append) :
               data \in {"", "hi"}, mode \in {<<>>, <<384>>}, append \in BOOLEAN}

FileOps(t, ids, paths, writes) ==
    \E id \in ids : \E path \in paths[id] :
        \/ read_file(t, id, path)
        \/ \E w \in writes : write_file(t, id, path, w.data, w.mode, w.append)
        \/ list_files(t, id, path)
        \/ mkdirs(t, id, path)

GitOps(t, ids, paths, urls, auths) ==
    \E id \in ids : \E path \in paths[id] :
        \/ \E url \in urls, auth \in auths : git_clone(t, id, url, path, "", auth)
        \/ git_status(t, id, path)
        \/ git_diff(t, id, path)
        \/ git_checkout_new_branch(t, id, path, "feature")
        \/ git_commit(t, id, path, "add notes")
        \/ \E remote \in urls, auth \in auths :
              git_push(t, id, path, remote, "main", auth)

CreateSteps(t) == create_register(t) \/ create_meta(t)

DeleteSteps(t) == delete_rmtree(t) \/ delete_pop(t)

FileSteps(t) == read_bytes(t) \/ write_open(t) \/ scandir(t) \/ mkdir(t)

GitSteps(t) == clone_mkdir(t) \/ git_run(t)

NoCwd(id) == {None}

\* Any number of callers at once (two here): sandboxes are created, used by
\* exec and deleted while other calls are in flight.
Next ==
    \E t \in Threads :
        \/ ret(t)
        \/ Create(t, {NoEnv}, {NoEnv})
        \/ CreateSteps(t)
        \/ Delete(t, DOMAIN created)
        \/ DeleteSteps(t)
        \/ Exec(t, DOMAIN created, {Sh("", "", 0)},
                [id \in DOMAIN created |-> NoCwd(id)], {NoEnv}, {NoTimeout})
        \/ run_end(t)

Spec == Init /\ [][Next]_vars

\* One caller: every operation of the provider on every identifier, each
\* call running to its end before the next one starts.
NextSeq ==
    \/ ret("t1")
    \/ Create("t1", {NoEnv}, {NoEnv})
    \/ CreateSteps("t1")
    \/ Delete("t1", Ids)
    \/ DeleteSteps("t1")
    \/ StartStop("t1", Ids)
    \/ Exec("t1", Ids, {Sh("", "", 0)}, [id \in Ids |-> NoCwd(id)], {NoEnv}, {NoTimeout})
    \/ run_end("t1")
    \/ FileOps("t1", Ids, [id \in Ids |-> OnePath(id)], OneWrite)
    \/ FileSteps("t1")
    \/ GitOps("t1", Ids, [id \in Ids |-> OnePath(id)], {HttpsUrl}, {NoAuth})
    \/ GitSteps("t1")

SpecSeq == Init /\ [][NextSeq]_vars

\* One caller, the process runner: commands that write output, fail, or
\* outlive their timeout, under every combination of environments.
NextExec ==
    \/ ret("t1")
    \/ Create("t1", CreateEnvs, CreateLabels)
    \/ CreateSteps("t1")
    \/ Exec("t1", DOMAIN sandboxes, ShCommands,
            [id \in DOMAIN sandboxes |-> NoCwd(id)], CallEnvs, Timeouts)
    \/ run_end("t1")

SpecExec == Init /\ [][NextExec]_vars

\* One caller, the path resolver: every operation that takes a path, on
\* every kind of path, in one sandbox that holds directories, files and links.
PathCwds(id) == PathInputs(id) \cup {None}

NextPath ==
    \/ ret("t1")
    \/ created = <<>> /\ Create("t1", {NoEnv}, {NoEnv})
    \/ CreateSteps("t1")
    \/ Exec("t1", DOMAIN sandboxes, LnCommands,
            [id \in DOMAIN sandboxes |-> NoCwd(id)], {NoEnv}, {NoTimeout})
    \/ Exec("t1", DOMAIN sandboxes, {Sh("", "", 0)},
            [id \in DOMAIN sandboxes |-> PathCwds(id)], {NoEnv}, {NoTimeout})
    \/ run_end("t1")
    \/ FileOps("t1", DOMAIN sandboxes, [id \in DOMAIN sandboxes |-> PathInputs(id)],
               OneWrite)
    \/ FileSteps("t1")
    \/ GitOps("t1", DOMAIN sandboxes, [id \in DOMAIN sandboxes |-> PathInputs(id)],
              {DeadUrl}, {NoAuth})
    \/ GitSteps("t1")

SpecPath == Init /\ [][NextPath]_vars

\* One caller, the file operations: files are written, appended to and read
\* back, directories are made and listed, in one sandbox.
FilePaths(id) == {Rel(<<"a", "b.txt">>), Rel(<<"a">>), Rel(<<"x", "y">>)}

NextFile ==
    \/ ret("t1")
    \/ created = <<>> /\ Create("t1", {NoEnv}, {NoEnv})
    \/ CreateSteps("t1")
    \/ FileOps("t1", DOMAIN sandboxes, [id \in DOMAIN sandboxes |-> FilePaths(id)],
               Writes)
    \/ FileSteps("t1")

SpecFile == Init /\ [][NextFile]_vars

\* One caller, the git operations: a clone of the remote into repo/, files
\* written into it, staged by the caller or not, committed and pushed, with
\* every form of URL and of credentials.
RepoPath(id) == {Rel(<<"repo">>)}

NotesPath(id) == {Rel(<<"repo", "NOTES.md">>)}

NotesWrites == {Write("hi", <<>>, FALSE), Write("yo", <<>>, FALSE)}

HostPath == "github.com/org/repo.git"

GitUrls ==
    {HttpsUrl, DeadUrl,
     <<"https://", "user", "@", HostPath>>,
     <<"https://", "user", ":", "pw", "@", HostPath>>,
     <<"git@github.com:org/repo.git">>, <<"/srv/remote.git">>, <<"origin">>}

GitAuths ==
    {NoAuth, [token |-> "abc"], [token |-> ""],
     [username |-> "u", password |-> "p"], [username |-> "u"],
     [token |-> "abc", username |-> "u", password |-> "p"]}

NextGit ==
    \/ ret("t1")
    \/ created = <<>> /\ Create("t1", {NoEnv}, {NoEnv})
    \/ CreateSteps("t1")
    \/ FileOps("t1", DOMAIN sandboxes, [id \in DOMAIN sandboxes |-> NotesPath(id)],
               NotesWrites)
    \/ FileSteps("t1")
    \/ Exec("t1", DOMAIN sandboxes, {GitHere("add", <<"-A">>)},
            [id \in DOMAIN sandboxes |-> RepoPath(id)], {NoEnv}, {NoTimeout})
    \/ run_end("t1")
    \/ GitOps("t1", DOMAIN sandboxes, [id \in DOMAIN sandboxes |-> RepoPath(id)],
              GitUrls, GitAuths)
    \/ GitSteps("t1")

SpecGit == Init /\ [][NextGit]_vars

\* The source-forge client: the check runs of a pull request, in every
\* combination of conclusions, are aggregated.
Providers ==
    {[token |-> "pat", repo |-> "org/repo"], [token |-> "", repo |-> "org/repo"],
     [token |-> "pat", repo |-> ""]}

PrResponses == {HttpError, NotDict, Pr(None), Pr(Str("abc"))}

RunValues ==
    {Run(c) : c \in {None} \cup {Str(x) : x \in {"success", "neutral", "failure",
                                                 "cancelled", "timed_out", "queued",
                                                 "in_progress", "action_required"}}}
    \cup {RunNoConclusion, NotDict}

RunLists == UNION {[1..n -> RunValues] : n \in 0..MaxRuns}

CheckResponses ==
    {HttpError, NotDict, RunNoConclusion} \cup {CheckData(runs) : runs \in RunLists}

NextChecks ==
    \/ ret("t1")
    \/ /\ IsIdle("t1")
       /\ \E self \in Providers, pr \in PrResponses, check_data \in CheckResponses :
             get_pr_checks("t1", self, pr, check_data)

SpecChecks == Init /\ [][NextChecks]_vars

\* Two callers of one sandbox: one writes files, makes directories and
\* clones into it while the other deletes it.
RacePaths(id) == {Rel(<<"a", "b.txt">>)}

NextRace ==
    \/ \E t \in Threads : ret(t)
    \/ created = <<>> /\ Create("t1", {NoEnv}, {NoEnv})
    \/ CreateSteps("t1")
    \/ FileOps("t1", DOMAIN created, [id \in DOMAIN created |-> RacePaths(id)],
               OneWrite)
    \/ FileSteps("t1")
    \/ GitOps("t1", DOMAIN created, [id \in DOMAIN created |-> RacePaths(id)],
              {HttpsUrl}, {NoAuth})
    \/ GitSteps("t1")
    \/ run_end("t1")
    \/ Delete("t2", DOMAIN created)
    \/ DeleteSteps("t2")

SpecRace == Init /\ [][NextRace]_vars

(***************************************************************************)
(* Properties                                                              *)
(***************************************************************************)
Out(t) == th[t].out

\* the path p, joined to the root of sandbox id when relative and with its
\* ".." segments and symbolic links resolved, is the root or lies under it
Contained(id, p) ==
    LET root   == resolve(sandboxes[id])
        target == resolve(IF p.abs THEN p.parts ELSE root \o p.parts)
    IN  \E n \in 0..Len(target) : SubSeq(target, 1, n) = root

\* the calls that were given a path, at the step that has just checked it
HasPath(r) == "path" \in DOMAIN r /\ r.path # None

\* C1: an operation that takes a path, on a registered sandbox, fails with
\* the path-escape error exactly when the resolved path lies outside the
\* root; when it is the root or lies under it the check passes and the
\* operation goes on with the resolved path.
C1_Containment ==
    \A t \in Threads :
        /\ (Done(t) /\ HasPath(Out(t)) /\ Out(t).id \in DOMAIN sandboxes)
              => (Out(t).kind = "path_escape" <=> ~Contained(Out(t).id, Out(t).path))
        /\ (~Done(t) /\ HasPath(th[t]))
              => /\ th[t].id \in DOMAIN sandboxes
                 /\ Contained(th[t].id, th[t].path)

\* git_push through an escaping link is rejected, in a sandbox where a
\* contained link exists as well
C1_Witness ==
    \E t \in Threads :
        /\ Done(t)
        /\ Out(t).op = "git_push"
        /\ Out(t).kind = "path_escape"
        /\ Out(t).path = Rel(<<"esc", "x">>)
        /\ Append(sandboxes[Out(t).id], "esc") \in DOMAIN links
        /\ Append(sandboxes[Out(t).id], "lnk") \in DOMAIN links

\* C2 (as stated): every operation but create_sandbox, given an identifier
\* that create_sandbox never returned, fails with the unknown-sandbox error.
C2_UnknownIdRejected ==
    \A t \in Threads :
        (Done(t) /\ Out(t).op # "create_sandbox"
                 /\ \A i \in DOMAIN returned : returned[i] # Out(t).id)
            => Out(t).kind = "unknown_sandbox"

\* what does hold: the same, get_preview_link left out
C2_ExceptPreviewLink ==
    \A t \in Threads :
        (Done(t) /\ Out(t).op \notin {"create_sandbox", "get_preview_link"}
                 /\ \A i \in DOMAIN returned : returned[i] # Out(t).id)
            => Out(t).kind = "unknown_sandbox"

C4_SecondDeleteReturns ==
    \A t \in Threads :
        (Done(t) /\ Out(t).op = "delete_sandbox" /\ Out(t).id \in deleted)
            => Out(t).kind = "ok"

\* C5: delete_sandbox on a registered identifier returns normally with the
\* registry entry removed, also when the tree was not (wholly) removed; it
\* raises only the unknown-sandbox error, and only for an unregistered id.
C5_DeleteAlwaysUnregisters ==
    \A t \in Threads :
        /\ (Done(t) /\ Out(t).op = "delete_sandbox")
              => /\ Out(t).kind \in {"ok", "unknown_sandbox"}
                 /\ Out(t).id \notin DOMAIN sandboxes

\* delete_sandbox has returned normally and the root is still on disk
C5_Witness ==
    \E t \in Threads :
        /\ Done(t)
        /\ Out(t).op = "delete_sandbox"
        /\ Out(t).kind = "ok"
        /\ Out(t).root \in dirs
        /\ Out(t).id \notin DOMAIN sandboxes

\* C6 (as stated): in every state, every registered identifier maps to a
\* root that exists on disk and is a directory.
C6_RegisteredRootExists ==
    \A id \in DOMAIN sandboxes : sandboxes[id] \in dirs

\* C7: the identifiers create_sandbox has returned are pairwise different,
\* and no two identifiers registered at the same time map to the same root.
C7_UniqueIdsAndRoots ==
    /\ \A i, j \in DOMAIN returned : i # j => returned[i] # returned[j]
    /\ \A a, b \in DOMAIN sandboxes : a # b => sandboxes[a] # sandboxes[b]

\* two creates with the same name have run at once and both are registered
C7_Witness ==
    /\ Len(returned) = 2
    /\ Cardinality(DOMAIN sandboxes) = 2
    /\ \A t \in Threads : Done(t) /\ Out(t).op = "create_sandbox"

\* C8 (as stated): while an exec holds the root it got from the registry,
\* the tree at that root is not removed under it.
C8_RootKeptWhileInFlight ==
    \A t \in Threads : th[t].pc = "run_wait" => th[t].root \in dirs

\* the environment the claim describes: os.environ, then the env given to
\* create_sandbox, then the env given to exec, later entries winning
ThreeWayEnv(id, env) ==
    LET sbx == created[id]
    IN  [k \in DOMAIN OsEnviron \cup DOMAIN sbx \cup DOMAIN env |->
            IF k \in DOMAIN env THEN env[k]
            ELSE IF k \in DOMAIN sbx THEN sbx[k]
            ELSE OsEnviron[k]]

\* C9 (as stated): the environment of the process exec starts is the merge
\* of os.environ, the sandbox's creation env and the call's env.
C9_EnvMerge ==
    \A t \in Threads :
        (th[t].pc = "run_wait" /\ th[t].op = "exec")
            => th[t].merged_env = ThreeWayEnv(th[t].id, th[t].env)

\* what does hold: os.environ updated with the call's env alone
C9_TwoWayEnv ==
    \A t \in Threads :
        (th[t].pc = "run_wait" /\ th[t].op = "exec")
            => th[t].merged_env =
                  [k \in DOMAIN OsEnviron \cup DOMAIN th[t].env |->
                      IF k \in DOMAIN th[t].env THEN th[t].env[k] ELSE OsEnviron[k]]

\* C10 (as stated): an exec whose command outlives timeout_s returns an
\* ExecResult with exit code 124 and raises nothing.
C10_TimeoutIsResult ==
    \A t \in Threads :
        (Done(t) /\ Out(t).op = "exec" /\ "timed_out" \in DOMAIN Out(t)
                 /\ Out(t).timed_out)
            => Out(t).kind = "ok" /\ Out(t).val.exit_code = 124

\* what does hold: the same, for a command that has written nothing to its
\* standard error when the timeout expires
C10_SilentTimeoutIsResult ==
    \A t \in Threads :
        (Done(t) /\ Out(t).op = "exec" /\ "timed_out" \in DOMAIN Out(t)
                 /\ Out(t).timed_out /\ Out(t).kind # "type_error")
            => Out(t).kind = "ok" /\ Out(t).val.exit_code = 124

\* the git call of thread t that has ended, and the repository it named
GitDone(t, op) == Done(t) /\ Out(t).op = op /\ "command" \in DOMAIN Out(t)

\* C11 (as stated): git_commit stages every change of the working tree and
\* commits it: when git_commit has ended on a repository, git status has
\* nothing to print there, and a normal return carries the 40-character
\* name of HEAD (an exception is left to the case where nothing was there
\* to commit).
C11_CommitStagesAll ==
    \A t \in Threads :
        (GitDone(t, "git_commit") /\ Out(t).command.repo \in DOMAIN repos)
            => LET r == Out(t).command.repo
               IN  /\ StatusText(r) = ""
                   /\ Out(t).kind = "ok"
                         => /\ Len(Out(t).val.val) = 40
                            /\ Out(t).val.val = Sha(repos[r].n)

\* what git_commit does: it commits the index as the caller staged it and
\* returns the name of HEAD
C11_CommitsTheIndex ==
    \A t \in Threads :
        (GitDone(t, "git_commit") /\ Out(t).command.repo \in DOMAIN repos
            /\ Out(t).kind = "ok")
            => LET r == Out(t).command.repo
               IN  /\ repos[r].head = repos[r].index
                   /\ Len(Out(t).val.val) = 40
                   /\ Out(t).val.val = Sha(repos[r].n)

GitOpNames ==
    {"git_clone", "git_status", "git_diff", "git_checkout_new_branch",
     "git_commit", "git_push"}

\* a git operation of thread t has ended after a git invocation that exited
\* non-zero
GitFailed(t) ==
    /\ Done(t)
    /\ Out(t).op \in GitOpNames
    /\ "ran" \in DOMAIN Out(t)
    /\ Out(t).ran.exit_code # 0

\* C12 (as stated): a git operation whose git invocation exits non-zero
\* raises the git-command error, and the error carries the standard error
\* text and the exit code.
C12_GitErrorHasStderrAndCode ==
    \A t \in Threads :
        GitFailed(t)
            => /\ Out(t).kind = "git_error"
               /\ Out(t).msg = "git " \o Out(t).command.sub \o " failed: "
                                  \o Out(t).ran.stderr.val
               /\ "exit_code" \in DOMAIN Out(t)
               /\ Out(t).exit_code = Out(t).ran.exit_code

\* what the operations do: the error is raised with the standard error text
\* in its message, and no exit code
C12_GitErrorHasStderr ==
    \A t \in Threads :
        GitFailed(t)
            => /\ Out(t).kind = "git_error"
               /\ Out(t).msg = "git " \o Out(t).command.sub \o " failed: "
                                  \o Out(t).ran.stderr.val
               /\ "exit_code" \notin DOMAIN Out(t)

\* the last component of each path of S
NamesOf(S) == {p[Len(p)] : p \in S}

ListDone(t) == Done(t) /\ Out(t).op = "list_files" /\ "target" \in DOMAIN Out(t)

\* C13 (as stated): list_files on a contained path that does not exist
\* returns the empty sequence and raises nothing; on a directory it returns
\* one entry per immediate child and no other.
C13_MissingDirListsEmpty ==
    \A t \in Threads :
        ListDone(t)
            => /\ ~Exists(Out(t).target)
                     => Out(t).kind = "ok" /\ Out(t).val = {}
               /\ Out(t).target \in dirs
                     => /\ Out(t).kind = "ok"
                        /\ NamesOf(Children(Out(t).target)) = {e.name : e \in Out(t).val}
                        /\ Cardinality(Out(t).val) = Cardinality(Children(Out(t).target))

\* what list_files does: a directory is listed child by child, a path that
\* does not exist raises FileNotFoundError
C13_MissingDirRaises ==
    \A t \in Threads :
        ListDone(t)
            => /\ ~Exists(Out(t).target) => Out(t).kind = "not_found"
               /\ Out(t).target \in dirs
                     => /\ Out(t).kind = "ok"
                        /\ NamesOf(Children(Out(t).target)) = {e.name : e \in Out(t).val}
                        /\ Cardinality(Out(t).val) = Cardinality(Children(Out(t).target))

\* C14: write_file fails only where no file can be (the path is a
\* directory, or a parent is a file); when it returns, the parents of the
\* path are directories and the file holds the data given, after its
\* previous content when append is set and alone otherwise; read_file of a
\* file returns what the file holds.
C14_WriteReadRoundTrip ==
    \A t \in Threads :
        /\ (Done(t) /\ Out(t).op = "write_file" /\ "target" \in DOMAIN Out(t))
              => IF Out(t).kind = "ok"
                 THEN /\ Chain(Front(Out(t).target)) \subseteq dirs
                      /\ Out(t).target \in DOMAIN files
                      /\ files[Out(t).target].data =
                            IF Out(t).append THEN Out(t).prev \o Out(t).data
                            ELSE Out(t).data
                 ELSE Out(t).target \in dirs \/ ~CanMkdirs(Front(Out(t).target))
        /\ (Done(t) /\ Out(t).op = "read_file" /\ "target" \in DOMAIN Out(t)
               /\ Out(t).target \in DOMAIN files)
              => Out(t).kind = "ok" /\ Out(t).val = files[Out(t).target].data

\* a file two levels under the root, made of two writes of which the second
\* appended, is read back
C14_Witness ==
    \E t \in Threads :
        /\ Done(t)
        /\ Out(t).op = "read_file"
        /\ Out(t).kind = "ok"
        /\ Out(t).val = "hihi"
        /\ Len(Out(t).target) = Len(sandboxes[Out(t).id]) + 2

\* the call of thread t, under way or just ended
Call(t) == IF Done(t) THEN Out(t) ELSE th[t]

\* thread t is in a git_clone or git_push that has built its command line
HasUrl(t) == "command" \in DOMAIN Call(t) /\ "url" \in DOMAIN Call(t).command

\* the URL on the command line of git clone <url> <target> or
\* git push <remote> <branch>
UsedUrl(c) == IF c.sub = "clone" THEN c.args[2] ELSE c.args[1]

IsHttps(url) == url # <<>> /\ Head(url) = "https://"

\* the URL has user information before its host
HasCredentials(url) == IsHttps(url) /\ \E i \in 2..Len(url) : url[i] = "@"

HasToken(auth) == auth # NoAuth /\ "token" \in DOMAIN auth /\ auth.token # ""

HasUserPass(auth) ==
    auth # NoAuth /\ "username" \in DOMAIN auth /\ "password" \in DOMAIN auth

\* C15: git_clone and git_push give git the https URL with "token@" put
\* before the host when auth holds a non-empty token (the URL having no
\* user information of its own), and the URL or remote as it was given when
\* it is not an https URL or when auth is absent.
C15_TokenInjected ==
    \A t \in Threads :
        HasUrl(t)
            => LET c == Call(t).command
               IN  /\ (IsHttps(c.url) /\ ~HasCredentials(c.url) /\ HasToken(c.auth))
                         => UsedUrl(c) = <<"https://", c.auth.token, "@">> \o Tail(c.url)
                   /\ (~IsHttps(c.url) \/ c.auth = NoAuth)
                         => UsedUrl(c) = c.url

\* git push has run with the token in the URL
C15_Witness ==
    \E t \in Threads :
        /\ Done(t)
        /\ Out(t).op = "git_push"
        /\ HasUrl(t)
        /\ Out(t).command.url = HttpsUrl
        /\ Out(t).command.auth = [token |-> "abc"]
        /\ UsedUrl(Out(t).command) = <<"https://", "abc", "@", HostPath>>

\* C16 (as stated): with no token and both username and password in auth,
\* git_clone and git_push give git the https URL with
\* "username:password@" put before the host.
C16_UserPasswordInjected ==
    \A t \in Threads :
        HasUrl(t)
            => LET c == Call(t).command
               IN  (IsHttps(c.url) /\ ~HasCredentials(c.url) /\ ~HasToken(c.auth)
                        /\ HasUserPass(c.auth))
                      => UsedUrl(c) = <<"https://", c.auth.username, ":",
                                        c.auth.password, "@">> \o Tail(c.url)

\* what _inject_auth does: without a token the URL is left as it was given
C16_UserPasswordIgnored ==
    \A t \in Threads :
        HasUrl(t)
            => LET c == Call(t).command
               IN  ~HasToken(c.auth) => UsedUrl(c) = c.url

\* C17 (as stated): an https URL that has user information of its own is
\* given to git as it is, whatever auth holds.
C17_EmbeddedCredentialsKept ==
    \A t \in Threads :
        HasUrl(t)
            => LET c == Call(t).command
               IN  HasCredentials(c.url) => UsedUrl(c) = c.url

\* what _inject_auth does: the token is put before the user information the
\* URL already had
C17_TokenPutBeforeCredentials ==
    \A t \in Threads :
        HasUrl(t)
            => LET c == Call(t).command
               IN  (HasCredentials(c.url) /\ HasToken(c.auth))
                      => UsedUrl(c) = <<"https://", c.auth.token, "@">> \o Tail(c.url)

\* C18: mkdirs, when it returns, has made the directory and all its
\* parents; called on a directory that exists (as a second identical call
\* is) it raises nothing and changes neither the file system nor the
\* registry.
C18_MkdirsIdempotent ==
    /\ [](\A t \in Threads :
             (Done(t) /\ Out(t).op = "mkdirs" /\ Out(t).kind = "ok")
                => Chain(Out(t).target) \subseteq dirs)
    /\ [][\A t \in Threads :
             (th[t].pc = "mkdir" /\ th[t].target \in dirs)
                => /\ th'[t].pc = "done"
                   /\ th'[t].out.kind = "ok"
                   /\ UNCHANGED <<sandboxes, dirs, files, links>>]_vars

\* mkdirs has returned from a call on a nested directory that was there
C18_Witness ==
    \E t \in Threads :
        /\ Done(t)
        /\ Out(t).op = "mkdirs"
        /\ Out(t).kind = "ok"
        /\ Out(t).existed
        /\ Out(t).target = sandboxes[Out(t).id] \o <<"x", "y">>

\* the aggregation the claim describes, over the conclusions of the runs
ClaimedStatus(conclusions) ==
    LET failing    == {Str("failure"), Str("cancelled"), Str("timed_out")}
        recognised == failing \cup {Str("success"), Str("neutral"), Str("skipped")}
    IN  IF AnyIn(conclusions, failing) THEN "failure"
        ELSE IF \E i \in DOMAIN conclusions : conclusions[i] \notin recognised
        THEN "pending"
        ELSE IF conclusions # <<>> THEN "success"
        ELSE "unknown"

\* get_pr_checks has returned the status of a list of check runs
ChecksDone(t) ==
    /\ Done(t)
    /\ Out(t).op = "get_pr_checks"
    /\ Out(t).kind = "ok"
    /\ Out(t).pr.ty = "dict"
    /\ Out(t).pr.sha # None
    /\ "check_runs" \in DOMAIN Out(t).check_data
    /\ \A i \in DOMAIN Out(t).check_data.check_runs :
          Out(t).check_data.check_runs[i].ty = "dict"

\* C19 (as stated): the status is failure when a run failed, was cancelled
\* or timed out; else pending when a run has no conclusion or one that is
\* not recognised; else success when there is a run; else unknown.
C19_Aggregation ==
    \A t \in Threads :
        ChecksDone(t)
            => Out(t).val = ClaimedStatus(Conclusions(Out(t).check_data.check_runs))

\* what get_pr_checks does: pending only for a run without conclusion or
\* with the conclusion queued or in_progress; any other conclusion that is
\* no failure counts as success
C19_UnrecognisedIsSuccess ==
    \A t \in Threads :
        ChecksDone(t)
            => LET conclusions == Conclusions(Out(t).check_data.check_runs)
                   failing == {Str("failure"), Str("cancelled"), Str("timed_out")}
                   pending == {None, Str("queued"), Str("in_progress")}
               IN  Out(t).val =
                      IF AnyIn(conclusions, failing) THEN "failure"
                      ELSE IF AnyIn(conclusions, pending) THEN "pending"
                      ELSE IF conclusions # <<>> THEN "success"
                      ELSE "unknown"

\* root is target or an ancestor of it, name by name
Ancestor(root, target) ==
    /\ Len(root) <= Len(target)
    /\ \A i \in 1..Len(root) : root[i] = target[i]

\* C20: an absolute path is accepted exactly when, with its links and ".."
\* resolved, it is the root or has the root as an ancestor, name by name; a
\* path in the sibling directory whose name starts with the name of the
\* root is rejected.
C20_AncestorTest ==
    \A t \in Threads :
        (Done(t) /\ HasPath(Out(t)) /\ Out(t).id \in DOMAIN sandboxes
            /\ Out(t).path.abs)
            => /\ Out(t).kind = "path_escape"
                     <=> ~Ancestor(resolve(sandboxes[Out(t).id]),
                                   resolve(Out(t).path.parts))
               /\ Out(t).path = SiblingPath(Out(t).id)
                     => Out(t).kind = "path_escape"

\* write_file on the path in the sibling directory has been rejected
C20_Witness ==
    \E t \in Threads :
        /\ Done(t)
        /\ Out(t).op = "write_file"
        /\ Out(t).id \in DOMAIN sandboxes
        /\ Out(t).path = SiblingPath(Out(t).id)
        /\ Out(t).kind = "path_escape"

\* exec has returned an ExecResult
ExecReturned(t) == Done(t) /\ Out(t).op = "exec" /\ Out(t).kind = "ok"

\* C21 (as stated): the ExecResult that exec returns has exit code 124
\* exactly when the command was ended for exceeding its timeout.
C21_SentinelOnlyOnTimeout ==
    \A t \in Threads :
        ExecReturned(t) => (Out(t).val.exit_code = 124 <=> Out(t).timed_out)

\* the half that _run keeps: a timeout is always reported with exit code 124
\* (a command that exits with 124 by itself is reported the same way)
C21_TimeoutHasSentinel ==
    \A t \in Threads :
        ExecReturned(t)
            => (Out(t).timed_out => Out(t).val.exit_code = 124)

\* the call of thread t was refused: its identifier is not registered or
\* its path leaves the root
Rejected(t) == Done(t) /\ Out(t).kind \in {"unknown_sandbox", "path_escape"}

\* C22: an operation that is rejected because the identifier is unknown or
\* the path escapes the root has no side effect: the call made no directory
\* and ran no process before it was refused, and the step that refuses it
\* leaves the registry, the file system and the repositories as they were.
C22_RejectedNoSideEffect ==
    /\ [](\A t \in Threads :
             Rejected(t) /\ "effects" \in DOMAIN Out(t) => Out(t).effects = {})
    /\ [][\A t \in Threads :
             ~Rejected(t) /\ Rejected(t)' => UNCHANGED <<sandboxes, fsvars, repos>>]_vars

\* create_sandbox has raised
CreateFailed(t) ==
    Done(t) /\ Out(t).op = "create_sandbox" /\ Out(t).kind # "ok"

\* no call is between its first and its last line
Quiescent == \A t \in Threads : IsIdle(t) \/ Done(t)

\* C23: create_sandbox is all-or-nothing: when it raises, the registry holds
\* no entry for the identifier it drew and its root directory is not on
\* disk; between calls the registered identifiers are those returned to
\* callers and not yet deleted.
C23_CreateAllOrNothing ==
    /\ \A t \in Threads :
          CreateFailed(t)
              => Out(t).id \notin DOMAIN sandboxes /\ Out(t).root \notin dirs
    /\ Quiescent
          => DOMAIN sandboxes = {returned[i] : i \in DOMAIN returned} \ deleted

\* what create_sandbox keeps: a call that fails at mkdtemp leaves nothing,
\* and an identifier is returned only when it is registered
C23_RootFailureLeavesNothing ==
    /\ \A t \in Threads :
          CreateFailed(t) /\ Out(t).root \notin dirs
              => Out(t).id \notin DOMAIN sandboxes
    /\ {returned[i] : i \in DOMAIN returned} \ deleted \subseteq DOMAIN sandboxes

\* delete_sandbox has returned and its rmtree removed the whole tree
DeletedClean(t) ==
    /\ Done(t)
    /\ Out(t).op = "delete_sandbox"
    /\ Out(t).kind = "ok"
    /\ Out(t).removed

\* C24: once delete_sandbox(id) has returned with a successful tree removal
\* and every operation that was in flight on id has finished, the root
\* directory of the sandbox is not on disk: no write_file, mkdirs or
\* git_clone that resolved its path before the delete makes it again.
C24_DeletedRootStaysGone ==
    \A t \in Threads :
        DeletedClean(t) /\ Quiescent => Out(t).root \notin dirs

====
